---- MODULE Spec2Model ----
(***************************************************************************)
(* Government-job alert bot (src/bot.py): the posting store, the scraper   *)
(* pass, the scheduled broadcast cycle (auto_fetch_and_broadcast), the     *)
(* on-demand cycle (update_command) and the registration handler           *)
(* (chat_member_update), as one state machine.                             *)
(*                                                                         *)
(* Atomicity.  The program is a single asyncio event loop: the code        *)
(* between two awaits that really suspend (HTTP request, transport send,   *)
(* sleep) runs without interleaving.  Each action below is one such        *)
(* segment.  The scheduled callback runs as a task of the job queue, the   *)
(* handlers run one after another in the update loop; bot.py itself takes  *)
(* no lock, so a scheduled cycle and a handler interleave at the awaits.   *)
(***************************************************************************)
EXTENDS Integers, Sequences, FiniteSets, TLC

(***************************************************************************)
(* Bounds of the model and constants of the program.                       *)
(***************************************************************************)
MaxFaults == 1        \* failures of the environment in one behaviour
MaxSendCount == 2     \* the transport's per-pair invocation counter saturates here

EntryCap == 3         \* feed.entries[:3]
ItemCap == 3          \* soup.select(selector)[:3]
MinTitleLen == 10     \* len(title) < 10
MinTextLen == 20      \* len(text) > 20
MaxTitleLen == 100    \* text[:100] + '...'
RssThreshold == 5     \* len(all_jobs) < 5
BatchSize == 3        \* db.get_unposted_jobs(3)
ReplyCap == 3         \* min(new_count, 3)

(***************************************************************************)
(* Text helpers: Python's str operations on the strings of the model.      *)
(***************************************************************************)
Min(a, b) == IF a < b THEN a ELSE b

\* pat in text
IsIn(pat, text) ==
    \E i \in 1..(Len(text) - Len(pat) + 1) : SubSeq(text, i, i + Len(pat) - 1) = pat

LowerLetters == "abcdefghijklmnopqrstuvwxyz"
UpperLetters == "ABCDEFGHIJKLMNOPQRSTUVWXYZ"

UpperChar(c) ==
    IF \E k \in 1..26 : SubSeq(LowerLetters, k, k) = c
    THEN LET k == CHOOSE k \in 1..26 : SubSeq(LowerLetters, k, k) = c
         IN  SubSeq(UpperLetters, k, k)
    ELSE c

LowerChar(c) ==
    IF \E k \in 1..26 : SubSeq(UpperLetters, k, k) = c
    THEN LET k == CHOOSE k \in 1..26 : SubSeq(UpperLetters, k, k) = c
         IN  SubSeq(LowerLetters, k, k)
    ELSE c

RECURSIVE Upper(_)
\* text.upper()
Upper(s) == IF s = "" THEN "" ELSE UpperChar(SubSeq(s, 1, 1)) \o Upper(SubSeq(s, 2, Len(s)))

RECURSIVE Lower(_)
\* text.lower()
Lower(s) == IF s = "" THEN "" ELSE LowerChar(SubSeq(s, 1, 1)) \o Lower(SubSeq(s, 2, Len(s)))

RECURSIVE Strip(_)
\* text.strip(), for the blank as the only whitespace of the model's texts
Strip(s) ==
    IF s = "" THEN ""
    ELSE IF SubSeq(s, 1, 1) = " " THEN Strip(SubSeq(s, 2, Len(s)))
    ELSE IF SubSeq(s, Len(s), Len(s)) = " " THEN Strip(SubSeq(s, 1, Len(s) - 1))
    ELSE s

(***************************************************************************)
(* Field extraction (JobScraper).                                          *)
(***************************************************************************)
Orgs ==
    << "SSC", "UPSC", "RRB", "RRC", "IBPS", "NVS", "KVS", "ESIC", "SAIL", "BHEL",
       "NTPC", "ONGC", "BECIL", "UPPSC", "BPSC", "MPPSC", "TNPSC", "RPSC", "MPSC",
       "GPSC", "CGPSC", "OPSC", "APPSC", "TSPSC", "KPSC", "WBPSC", "HPSC", "PPSC",
       "HPPSC", "UKPSC", "JPSC", "CTET", "AIIMS", "NVS", "KVS", "CRPF", "CISF",
       "ITBP", "SSB" >>

DefaultOrg == "Government of India"

\* JobScraper._extract_org: the first acronym of the list found in text.upper()
extract_org(text) ==
    LET up   == Upper(text)
        hits == { k \in 1..Len(Orgs) : IsIn(Orgs[k], up) }
    IN  IF hits = {} THEN DefaultOrg
        ELSE Orgs[CHOOSE k \in hits : \A m \in hits : k <= m]

Keywords == << "recruitment", "vacancy", "post", "job", "notification" >>

\* any(keyword in text.lower() for keyword in [...])
HasKeyword(text) == \E k \in 1..Len(Keywords) : IsIn(Keywords[k], Lower(text))

\* the character of text at position i ("" outside the text)
At(text, i) == IF i \in 1..Len(text) THEN SubSeq(text, i, i) ELSE ""

IsDigit(c) == c # "" /\ IsIn(c, "0123456789")             \* \d
IsDateSep(c) == c \in { "-", "/", "." }                   \* [-/\.]
IsSpace(c) == c \in { " ", "\n" }                         \* \s
IsColonSpace(c) == c = ":" \/ IsSpace(c)                  \* [:\s]
IsLetter(c) == c # "" /\ IsIn(LowerChar(c), LowerLetters) \* [a-z] under re.IGNORECASE

\* the character classes of the patterns
InClass(class, c) ==
    CASE class = "digit"      -> IsDigit(c)
      [] class = "space"      -> IsSpace(c)
      [] class = "colonspace" -> IsColonSpace(c)
      [] class = "letter"     -> IsLetter(c)

\* the least element of a set of numbers, or none when the set is empty
MinOr(S, none) == IF S = {} THEN none ELSE CHOOSE x \in S : \A y \in S : x <= y

\* a greedy repetition: how many characters from position i on are in the
\* class, max at most
RunLen(class, text, i, max) ==
    MinOr({ n \in 0..(max - 1) : ~InClass(class, At(text, i + n)) }, max)

\* a match: where it starts, the position after it, where its first group
\* starts, the number of groups of its pattern
NoMatch == [start |-> 0, stop |-> 0, g1start |-> 0, groups |-> 0]

Match(start, g1start, stop, groups) ==
    IF stop = 0 THEN NoMatch
    ELSE [start |-> start, stop |-> stop, g1start |-> g1start, groups |-> groups]

\* the first of the alternatives the matcher tries, in its order, that matches
FirstMatch(tries) == tries[MinOr({ k \in DOMAIN tries : tries[k] # NoMatch }, 1)]

\* the first position after a match, 0 when no alternative matches
FirstStop(stops) == stops[MinOr({ k \in DOMAIN stops : stops[k] # 0 }, 1)]

\* \d{minYear,4} at the end of a pattern: digits of them are there at position y
YearStop(y, digits, minYear) == IF digits >= minYear THEN y + digits ELSE 0

\* \d{1,2}[-/\.]\d{1,2}[-/\.]\d{minYear,4} at position i with a day of a and a
\* month of b digits: the position after the match, 0 when there is none
DateWith(text, i, a, b, minYear) ==
    IF /\ RunLen("digit", text, i, 2) >= a
       /\ IsDateSep(At(text, i + a))
       /\ RunLen("digit", text, i + a + 1, 2) >= b
       /\ IsDateSep(At(text, i + a + 1 + b))
    THEN YearStop(i + a + b + 2, RunLen("digit", text, i + a + b + 2, 4), minYear)
    ELSE 0

\* the repetitions are greedy and the matcher backtracks: two digits are
\* tried before one, for the day first
DigitLengths == << << 2, 2 >>, << 2, 1 >>, << 1, 2 >>, << 1, 1 >> >>

\* \d{1,2}[-/\.]\d{1,2}[-/\.]\d{minYear,4} matched at position i
DateAt(text, i, minYear) ==
    FirstStop([k \in 1..Len(DigitLengths) |->
                 DateWith(text, i, DigitLengths[k][1], DigitLengths[k][2], minYear)])

\* [:\s]+ took run characters after 'Last Date': the date is tried after all
\* of them, then after one less, ...
LastDateFrom(text, i, run) ==
    FirstMatch([k \in 1..(run + 1) |->
                  IF k > run THEN NoMatch
                  ELSE Match(i, i + 9 + (run + 1 - k),
                             DateAt(text, i + 9 + (run + 1 - k), 2), 1)])

\* r'Last Date[:\s]+(\d{1,2}[-/\.]\d{1,2}[-/\.]\d{2,4})' matched at position i
LastDateAt(text, i) ==
    IF i + 8 <= Len(text) /\ Lower(SubSeq(text, i, i + 8)) = "last date"
    THEN LastDateFrom(text, i, RunLen("colonspace", text, i + 9, Len(text)))
    ELSE NoMatch

\* r'(\d{1,2}[-/\.]\d{1,2}[-/\.]\d{4})' matched at position i
BareDateAt(text, i) == Match(i, i, DateAt(text, i, 4), 1)

MonthNames ==
    { "jan", "feb", "mar", "apr", "may", "jun", "jul", "aug", "sep", "oct", "nov", "dec" }

\* \s+(\d{4}) at position w, the \s+ taking sp characters
MonthYear(text, w, sp) ==
    IF sp >= 1 /\ RunLen("digit", text, w + sp, 4) = 4 THEN w + sp + 4 ELSE 0

\* [a-z]*\s+(\d{4}) at position m
MonthRest(text, m) ==
    MonthYear(text, m + RunLen("letter", text, m, Len(text)),
              RunLen("space", text, m + RunLen("letter", text, m, Len(text)), Len(text)))

\* \s+(Jan|...|Dec)[a-z]*\s+(\d{4}) at position j, the first \s+ taking sp characters
MonthName(text, j, sp) ==
    IF /\ sp >= 1
       /\ j + sp + 2 <= Len(text)
       /\ Lower(SubSeq(text, j + sp, j + sp + 2)) \in MonthNames
    THEN MonthRest(text, j + sp + 3)
    ELSE 0

\* r'(\d{1,2})\s+(Jan|...|Dec)[a-z]*\s+(\d{4})' matched at position i: a day
\* of two digits is tried before a day of one
MonthDateAt(text, i) ==
    FirstMatch([k \in 1..2 |->
                  IF RunLen("digit", text, i, 2) >= 3 - k
                  THEN Match(i, i,
                             MonthName(text, i + (3 - k),
                                       RunLen("space", text, i + (3 - k), Len(text))),
                             3)
                  ELSE NoMatch])

\* the patterns of _extract_date, in the order of the list
NumPatterns == 3

MatchAt(k, text, i) ==
    CASE k = 1 -> LastDateAt(text, i)
      [] k = 2 -> BareDateAt(text, i)
      [] k = 3 -> MonthDateAt(text, i)

\* re.search(pattern, text, re.IGNORECASE): the match at the leftmost
\* position that has one
Search(k, text) ==
    IF text = "" THEN NoMatch
    ELSE FirstMatch([i \in 1..Len(text) |-> MatchAt(k, text, i)])

DateSentinel == "Check notification"

\* return match.group(1) if len(match.groups()) == 1 else match.group(0);
\* return 'Check notification' after the loop
Returned(text, match) ==
    IF match = NoMatch THEN DateSentinel
    ELSE SubSeq(text, IF match.groups = 1 THEN match.g1start ELSE match.start,
                match.stop - 1)

\* faulty variant: the patterns tried from the last to the first
extract_date_Reversed(text) ==
    IF text = "" THEN DateSentinel
    ELSE Returned(text, FirstMatch([k \in 1..NumPatterns |->
                                      Search(NumPatterns + 1 - k, text)]))

\* JobScraper._extract_date: the first pattern of the list that matches decides
extract_date(text) ==
    IF text = "" THEN DateSentinel
    ELSE Returned(text, FirstMatch([k \in 1..NumPatterns |-> Search(k, text)]))

(***************************************************************************)
(* The upstream world of the model: what each source serves when it        *)
(* answers.  An RSS entry is its title; an HTML page gives, for each       *)
(* selector of _parse_html in priority order, the texts of the elements    *)
(* it selects.                                                             *)
(***************************************************************************)
\* the sources a pass of the model polls: the first two of rss_sources, the
\* first of html_sources
RssNames == << "employment_news", "ssc" >>
HtmlNames == << "employment_news_html" >>
NumRss == Len(RssNames)
NumHtml == Len(HtmlNames)

RssFeed(k) ==
    CASE k = 1 -> << [title |-> "SSC CGL 2025 Notification"],
                     [title |-> "Junior Engineer Recruitment 2025"],
                     [title |-> " UPSC NDA Exam 2025 "],
                     [title |-> "RRB Group D Vacancy"] >>
      [] OTHER -> << [title |-> "RRB Group D Vacancy"],
                     [title |-> "SSC Exam"],
                     [title |-> "SSC CGL 2025 Notification"] >>

Selectors ==
    << "table tr", ".job-listing", ".vacancy", ".notification",
       "article", ".news-item", ".list-group-item" >>

HtmlPage(k) ==
    CASE k = 1 -> << << "Home", "Junior Engineer Recruitment 2025" >>,
                     << >>, << >>, << >>,
                     << "RRB Group D Vacancy" >>, << >>, << >> >>

Responses == { "ok", "http_error", "exception" }

(***************************************************************************)
(* Source adapters (JobScraper).                                           *)
(***************************************************************************)
Take(seq, n) == SubSeq(seq, 1, Min(n, Len(seq)))

\* JobScraper._parse_entry: <<>> stands for None, <<job>> for the job
parse_entry(entry, source) ==
    LET title == Strip(entry.title)
    IN  IF title = "" \/ Len(title) < MinTitleLen
        THEN << >>
        ELSE << [source |-> source, title |-> title, organization |-> extract_org(title)] >>

RECURSIVE ParseEntries(_, _)
\* the loop of fetch_rss over feed.entries[:3]
ParseEntries(entries, source) ==
    IF entries = << >> THEN << >>
    ELSE parse_entry(Head(entries), source) \o ParseEntries(Tail(entries), source)

\* JobScraper.fetch_rss: the jobs of source k under the response resp
fetch_rss(k, resp) ==
    IF resp = "ok"
    THEN ParseEntries(Take(RssFeed(k), EntryCap), RssNames[k])
    ELSE << >>

\* the job _parse_html builds from one matching text block
HtmlJob(text, source) ==
    [source       |-> source \o "_html",
     title        |-> IF Len(text) > MaxTitleLen
                      THEN SubSeq(text, 1, MaxTitleLen) \o "..."
                      ELSE text,
     organization |-> extract_org(text)]

\* the inner loop of _parse_html: the first valid item of one selector
FirstValid(items, source) ==
    LET ok == { i \in 1..Len(items) : Len(items[i]) > MinTextLen /\ HasKeyword(items[i]) }
    IN  IF ok = {} THEN << >>
        ELSE << HtmlJob(items[CHOOSE i \in ok : \A m \in ok : i <= m], source) >>

RECURSIVE ScanSelectors_All(_, _, _)
\* faulty variant: the outer loop without its break
ScanSelectors_All(page, s, source) ==
    IF s > Len(Selectors) THEN << >>
    ELSE FirstValid(Take(page[s], ItemCap), source) \o ScanSelectors_All(page, s + 1, source)

RECURSIVE ScanSelectors(_, _, _)
\* the outer loop of _parse_html: selectors in order, stop at the first that yields
ScanSelectors(page, s, source) ==
    IF s > Len(Selectors) THEN << >>
    ELSE LET got == FirstValid(Take(page[s], ItemCap), source)
         IN  IF got # << >> THEN got ELSE ScanSelectors(page, s + 1, source)

\* JobScraper._parse_html
parse_html(page, source) == ScanSelectors(page, 1, source)

\* JobScraper.fetch_html: the jobs of page k under the response resp
fetch_html(k, resp) ==
    IF resp = "ok" THEN parse_html(HtmlPage(k), HtmlNames[k]) ELSE << >>

\* the adapters' results, computed once
RssJobs == [k \in 1..NumRss |-> [r \in Responses |-> fetch_rss(k, r)]]
HtmlJobs == [k \in 1..NumHtml |-> [r \in Responses |-> fetch_html(k, r)]]

(***************************************************************************)
(* The posting store (Database).  The jobs table is the sequence of its    *)
(* rows in id order (AUTOINCREMENT, no row is ever deleted, so id = index);*)
(* the channels table is the set of its rows.  Of the                      *)
(* columns that no operation reads back (qualification, last_date, links,  *)
(* post_date, location) the model keeps source as the representative.      *)
(***************************************************************************)
\* hash_str = f"{job['title']}{job.get('organization', '')}"; md5 taken as injective
Fingerprint(job) == job.title \o job.organization

Hashes(rows) == { rows[i].hash : i \in 1..Len(rows) }

\* CURRENT_TIMESTAMP in whole seconds, counted from the newest row's second
Now(rows, newSecond) ==
    LET last == IF rows = << >> THEN 0 ELSE rows[Len(rows)].created_at
    IN  IF newSecond THEN last + 1 ELSE last

\* faulty variant: the hash column without its UNIQUE constraint
InsertOrIgnore_NoUnique(rows, job, newSecond) ==
    Append(rows, [id           |-> Len(rows) + 1,
                  source       |-> job.source,
                  title        |-> job.title,
                  organization |-> job.organization,
                  hash         |-> Fingerprint(job),
                  posted       |-> 0,
                  created_at   |-> Now(rows, newSecond)])

\* faulty variant: INSERT OR REPLACE, which rewrites the stored row
InsertOrIgnore_Replace(rows, job, newSecond) ==
    IF Fingerprint(job) \in Hashes(rows)
    THEN [i \in 1..Len(rows) |->
            IF rows[i].hash = Fingerprint(job)
            THEN [rows[i] EXCEPT !.source = job.source, !.posted = 0,
                                 !.created_at = Now(rows, newSecond)]
            ELSE rows[i]]
    ELSE Append(rows, [id           |-> Len(rows) + 1,
                       source       |-> job.source,
                       title        |-> job.title,
                       organization |-> job.organization,
                       hash         |-> Fingerprint(job),
                       posted       |-> 0,
                       created_at   |-> Now(rows, newSecond)])

\* INSERT OR IGNORE INTO jobs ... (hash UNIQUE)
InsertOrIgnore(rows, job, newSecond) ==
    IF Fingerprint(job) \in Hashes(rows)
    THEN rows
    ELSE Append(rows, [id           |-> Len(rows) + 1,
                       source       |-> job.source,
                       title        |-> job.title,
                       organization |-> job.organization,
                       hash         |-> Fingerprint(job),
                       posted       |-> 0,
                       created_at   |-> Now(rows, newSecond)])

\* faulty variant: return True whatever INSERT OR IGNORE did
add_job_AlwaysTrue(rows, job, storeError, newSecond) ==
    IF storeError
    THEN [rows |-> rows, ok |-> FALSE]
    ELSE [rows |-> InsertOrIgnore(rows, job, newSecond), ok |-> TRUE]

\* Database.add_job: the table afterwards and the value returned; storeError
\* is sqlite3 raising inside the try block
add_job(rows, job, storeError, newSecond) ==
    IF storeError
    THEN [rows |-> rows, ok |-> FALSE]
    ELSE LET after == InsertOrIgnore(rows, job, newSecond)
         IN  [rows |-> after, ok |-> Len(after) > Len(rows)]

RECURSIVE InsertAll_StopAtError(_, _, _, _, _)
\* faulty variant: the store error leaves the loop
InsertAll_StopAtError(rows, all_jobs, k, errs, tickAt) ==
    IF k > Len(all_jobs) \/ k \in errs
    THEN [rows |-> rows, new_count |-> 0]
    ELSE LET r    == add_job(rows, all_jobs[k], FALSE, k = tickAt)
             rest == InsertAll_StopAtError(r.rows, all_jobs, k + 1, errs, tickAt)
         IN  [rows      |-> rest.rows,
              new_count |-> rest.new_count + (IF r.ok THEN 1 ELSE 0)]

RECURSIVE InsertAll(_, _, _, _, _)
\* new_count = 0; for job in jobs: if db.add_job(job): new_count += 1
\* (from the k-th job on; the calls at the positions errs raise, the second
\* changes before the tickAt-th call)
InsertAll(rows, all_jobs, k, errs, tickAt) ==
    IF k > Len(all_jobs)
    THEN [rows |-> rows, new_count |-> 0]
    ELSE LET r    == add_job(rows, all_jobs[k], k \in errs, k = tickAt)
             rest == InsertAll(r.rows, all_jobs, k + 1, errs, tickAt)
         IN  [rows      |-> rest.rows,
              new_count |-> rest.new_count + (IF r.ok THEN 1 ELSE 0)]

\* the inputs of one add_job loop: the calls that raise and the call before
\* which the clock's second changes (0: it does not).  In the model no call
\* raises, or the first does, or all do (the database stays locked); the
\* second changes before the first call or not at all.
StoreErrors(all_jobs) ==
    { {} } \cup (IF all_jobs = << >> THEN {} ELSE { {1}, 1..Len(all_jobs) })
Ticks(all_jobs) == 0..Min(1, Len(all_jobs))

Unposted(rows) == { i \in 1..Len(rows) : rows[i].posted = 0 }

\* Database.get_unposted_jobs: SELECT * FROM jobs WHERE posted=0 ORDER BY
\* created_at DESC LIMIT ?  -- the results the statement allows, as sequences
\* of ids.  SQL leaves the order of rows of one second open; the model takes
\* the two orders a scan produces, ascending and descending id.
get_unposted_jobs(rows, limit) ==
    LET un == Unposted(rows)
        n  == Min(limit, Cardinality(un))
        Tied(b, i, j) == i < j /\ rows[b[i]].created_at = rows[b[j]].created_at
    IN  { b \in [1..n -> un] :
            /\ \A i, j \in 1..n : i < j =>
                  /\ b[i] # b[j]
                  /\ rows[b[i]].created_at >= rows[b[j]].created_at
            /\ \A x \in un : (\A i \in 1..n : b[i] # x) =>
                  \A i \in 1..n : rows[b[i]].created_at >= rows[x].created_at
            /\ \/ \A i, j \in 1..n : Tied(b, i, j) => b[i] < b[j]
               \/ \A i, j \in 1..n : Tied(b, i, j) => b[i] > b[j] }

\* Database.mark_posted: UPDATE jobs SET posted=1 WHERE id=?
mark_posted(rows, job_id) ==
    [i \in 1..Len(rows) |-> IF rows[i].id = job_id
                            THEN [rows[i] EXCEPT !.posted = 1]
                            ELSE rows[i]]

\* faulty variant: the marking loop left after its first posting
MarkAll_HeadOnly(rows, ids) ==
    IF ids = << >> THEN rows ELSE mark_posted(rows, Head(ids))

RECURSIVE MarkAll(_, _)
\* for job in unposted: db.mark_posted(job['id'])
MarkAll(rows, ids) ==
    IF ids = << >> THEN rows ELSE MarkAll(mark_posted(rows, Head(ids)), Tail(ids))

\* the row an INSERT into channels writes (is_active defaults to 1)
ChannelRow(chat_id, chat_title, chat_type, added_by) ==
    [chat_id |-> chat_id, chat_title |-> chat_title, chat_type |-> chat_type,
     added_by |-> added_by, is_active |-> 1]

\* faulty variant: chat_id without its PRIMARY KEY constraint
add_channel_NoPrimaryKey(chans, chat_id, chat_title, chat_type, added_by, storeError) ==
    IF storeError
    THEN [rows |-> chans, ok |-> FALSE]
    ELSE [rows |-> chans \cup { ChannelRow(chat_id, chat_title, chat_type, added_by) },
          ok   |-> TRUE]

\* Database.add_channel: INSERT OR REPLACE INTO channels (chat_id PRIMARY
\* KEY: the row of that chat_id, if any, is deleted first); the table
\* afterwards and the value returned
add_channel(chans, chat_id, chat_title, chat_type, added_by, storeError) ==
    IF storeError
    THEN [rows |-> chans, ok |-> FALSE]
    ELSE [rows |-> { r \in chans : r.chat_id # chat_id }
                      \cup { ChannelRow(chat_id, chat_title, chat_type, added_by) },
          ok   |-> TRUE]

RECURSIVE SortedSeq(_)
\* the ids of a set in rowid order
SortedSeq(S) ==
    IF S = {} THEN << >>
    ELSE LET m == CHOOSE x \in S : \A y \in S : x <= y
         IN  << m >> \o SortedSeq(S \ {m})

\* Database.get_active_channels: SELECT chat_id FROM channels WHERE is_active=1
\* (a scan of the table, which is in chat_id order)
get_active_channels(chans) ==
    SortedSeq({ r.chat_id : r \in { q \in chans : q.is_active = 1 } })

(***************************************************************************)
(* The chats of the model and the inputs of the handlers.                  *)
(***************************************************************************)
Groups == { 1, 2 }                \* chats the bot can be made administrator of
Privates == { 3 }                 \* a private chat with the bot
ChatTitles == { "Govt Jobs" }
UpdateChats == { 1, 3 }           \* the chats /update is sent from
Users == { 7 }
GroupTypes == { "group", "supergroup", "channel" }

ChatType(chat) == IF chat \in Privates THEN "private"
                  ELSE IF chat = 1 THEN "channel" ELSE "supergroup"

MemberStatuses == { "administrator", "member", "error" }

\* the access check of update_command: "" when the caller may go on, else the reply
AccessCheck(is_admin, chat, member) ==
    IF is_admin THEN ""
    ELSE IF ChatType(chat) \in { "group", "supergroup", "channel" }
         THEN IF member = "error" THEN "error_checking_admin"
              ELSE IF member \notin { "administrator", "creator" } THEN "admin_only"
              ELSE ""
         ELSE "groups_only"

(***************************************************************************)
(* State.                                                                  *)
(*   jobs, channels  the two tables of jobs.db                             *)
(*   sched           the scheduled callback auto_fetch_and_broadcast       *)
(*   upd             the handler update_command                            *)
(*   sendCount       the transport: how often send_message was invoked     *)
(*                   for a (job id, chat id) pair                          *)
(*   faults          how often the environment failed: a source that did   *)
(*                   not answer, an add_job loop or an add_channel call    *)
(*                   with store errors                                     *)
(* A cycle's record holds its local variables and its place (pc):          *)
(*   "idle"    not running                                                 *)
(*   "rss", "html"  awaiting source idx                                    *)
(*   "insert"  sources polled, session being closed                        *)
(*   "send"    awaiting the send of unposted[ji] to targets[ci]            *)
(*   "reply"   update_command awaiting its last reply_text                 *)
(* sends counts the sends of the pass.                                     *)
(*   call            the last direct call of a method of Database or       *)
(*                   JobScraper, with its argument and what it returned;   *)
(*                   the cycles and handlers leave it alone                *)
(***************************************************************************)
VARIABLES jobs, channels, sched, upd, sendCount, faults, call

vars == << jobs, channels, sched, upd, sendCount, faults, call >>

\* no method was called directly
NoCall == [op |-> "none", arg |-> << >>, result |-> << >>]

NoReply == [text |-> "", found |-> 0, new |-> 0, posted |-> 0]

Idle ==
    [pc |-> "idle", chat |-> 0, idx |-> 0, all_jobs |-> << >>, session |-> "none",
     found |-> 0, new_count |-> 0, targets |-> << >>, unposted |-> << >>,
     ci |-> 0, ji |-> 0, sends |-> 0, reply |-> NoReply]

Init ==
    /\ jobs = << >>
    /\ channels = {}
    /\ sched = Idle
    /\ upd = Idle
    /\ sendCount = << >>
    /\ faults = 0
    /\ call = NoCall

Resting(p) == p.pc = "idle"

\* the environment may fail once more (a source, or sqlite3)
Fault(failed) ==
    /\ failed => faults < MaxFaults
    /\ faults' = IF failed THEN faults + 1 ELSE faults

Count(job_id, chat) ==
    IF << job_id, chat >> \in DOMAIN sendCount THEN sendCount[<< job_id, chat >>] ELSE 0

\* context.bot.send_message is invoked for the pair
Invoke(job_id, chat) ==
    (<< job_id, chat >> :> Min(Count(job_id, chat) + 1, MaxSendCount)) @@ sendCount

(***************************************************************************)
(* JobScraper.fetch_all_jobs, on the record of the cycle that called it.   *)
(***************************************************************************)
\* scraper = JobScraper(); init_session(); all_jobs = []; first RSS request
StartFetch(chat) ==
    [Idle EXCEPT !.pc = "rss", !.chat = chat, !.idx = 1, !.session = "open"]

\* faulty variant: the HTML fallback whatever the RSS sources yielded
RssStep_AlwaysHtml(p, resp) ==
    LET all == p.all_jobs \o RssJobs[p.idx][resp]
    IN  IF p.idx < NumRss
        THEN [p EXCEPT !.all_jobs = all, !.idx = p.idx + 1]
        ELSE [p EXCEPT !.all_jobs = all, !.pc = "html", !.idx = 1]

\* faulty variant: a source that fails ends the pass with nothing
RssStep_AbortOnFailure(p, resp) ==
    LET all == p.all_jobs \o RssJobs[p.idx][resp]
    IN  IF resp # "ok"
        THEN [p EXCEPT !.all_jobs = << >>, !.pc = "insert", !.idx = 0]
        ELSE IF p.idx < NumRss
        THEN [p EXCEPT !.all_jobs = all, !.idx = p.idx + 1]
        ELSE IF Len(all) < RssThreshold
        THEN [p EXCEPT !.all_jobs = all, !.pc = "html", !.idx = 1]
        ELSE [p EXCEPT !.all_jobs = all, !.pc = "insert", !.idx = 0]

\* the answer of RSS source p.idx: extend, sleep, then the next request,
\* the HTML fallback, or close_session
RssStep(p, resp) ==
    LET all == p.all_jobs \o RssJobs[p.idx][resp]
    IN  IF p.idx < NumRss
        THEN [p EXCEPT !.all_jobs = all, !.idx = p.idx + 1]
        ELSE IF Len(all) < RssThreshold
        THEN [p EXCEPT !.all_jobs = all, !.pc = "html", !.idx = 1]
        ELSE [p EXCEPT !.all_jobs = all, !.pc = "insert", !.idx = 0]

\* the answer of HTML page p.idx
HtmlStep(p, resp) ==
    LET all == p.all_jobs \o HtmlJobs[p.idx][resp]
    IN  IF p.idx < NumHtml
        THEN [p EXCEPT !.all_jobs = all, !.idx = p.idx + 1]
        ELSE [p EXCEPT !.all_jobs = all, !.pc = "insert", !.idx = 0]

\* faulty variant: dispatch whatever the pass inserted
DispatchGate_Always(new_count) == TRUE

\* if new_count > 0: (line 613, and line 544 of update_command)
DispatchGate(new_count) == new_count > 0

\* close_session(); return all_jobs; then the caller's add_job loop
Inserted(p, ins) ==
    [p EXCEPT !.session = "closed", !.all_jobs = << >>, !.idx = 0,
              !.found = Len(p.all_jobs), !.new_count = ins.new_count]

(***************************************************************************)
(* The fan-out loops.                                                      *)
(***************************************************************************)
Range(seq) == { seq[i] : i \in 1..Len(seq) }

\* the loop variables after the send of unposted[ji] to targets[ci] returned
\* or raised: the next job, else the next chat, else the loops are over
Advance(p) ==
    IF p.ji < Len(p.unposted) THEN [p EXCEPT !.ji = p.ji + 1]
    ELSE IF p.ci < Len(p.targets) THEN [p EXCEPT !.ci = p.ci + 1, !.ji = 1]
    ELSE [p EXCEPT !.pc = "over"]

\* faulty variant: an exception of send_message leaves the loops
AfterSend_Abort(p, ok) ==
    IF ok THEN Advance([p EXCEPT !.sends = p.sends + 1])
    ELSE [p EXCEPT !.sends = p.sends + 1, !.pc = "over"]

\* faulty variant: a send that raised is tried again
AfterSend_Retry(p, ok) ==
    IF ok THEN Advance([p EXCEPT !.sends = p.sends + 1])
    ELSE [p EXCEPT !.sends = p.sends + 1]

\* try: await send_message(...) [; sleep] except Exception: logger.error(...)
AfterSend(p, ok) == Advance([p EXCEPT !.sends = p.sends + 1])

\* faulty variant: the mark inside the try block, as update_command has it
SchedMarks_PerSend(rows, p, q, ok) ==
    IF ok THEN mark_posted(rows, p.unposted[p.ji]) ELSE rows

\* auto_fetch_and_broadcast, lines 636-638: the marks follow the two loops
SchedMarks(rows, p, q, ok) ==
    IF q.pc = "over" THEN MarkAll(rows, p.unposted) ELSE rows

\* update_command, line 555: the mark follows the send inside the try block
UpdMarks(rows, p, q, ok) ==
    IF ok THEN mark_posted(rows, p.unposted[p.ji]) ELSE rows

\* lines 560-565: the reply that ends update_command
Reply(p) ==
    [Idle EXCEPT !.pc = "reply", !.chat = p.chat,
                 !.reply = [text |-> "done", found |-> p.found, new |-> p.new_count,
                            posted |-> Min(p.new_count, ReplyCap)]]

(***************************************************************************)
(* auto_fetch_and_broadcast (job queue, every 30 minutes; the job queue    *)
(* starts no second instance while one runs).                              *)
(***************************************************************************)
SchedStart ==
    /\ Resting(sched)
    /\ sched' = StartFetch(0)
    /\ UNCHANGED << jobs, channels, upd, sendCount, faults, call >>

SchedFetchRss ==
    /\ sched.pc = "rss"
    /\ \E resp \in Responses : sched' = RssStep(sched, resp) /\ Fault(resp # "ok")
    /\ UNCHANGED << jobs, channels, upd, sendCount, call >>

SchedFetchHtml ==
    /\ sched.pc = "html"
    /\ \E resp \in Responses : sched' = HtmlStep(sched, resp) /\ Fault(resp # "ok")
    /\ UNCHANGED << jobs, channels, upd, sendCount, call >>

\* lines 606-620, and 636-640 when the loops have nothing to send
SchedInsert ==
    /\ sched.pc = "insert"
    /\ \E errs \in StoreErrors(sched.all_jobs), tickAt \in Ticks(sched.all_jobs) :
         /\ Fault(errs # {})
         /\ LET ins == InsertAll(jobs, sched.all_jobs, 1, errs, tickAt)
                p   == Inserted(sched, ins)
            IN  IF DispatchGate(ins.new_count)
                THEN \E batch \in get_unposted_jobs(ins.rows, BatchSize) :
                       LET chans == get_active_channels(channels)
                       IN  IF chans = << >> \/ batch = << >>
                           THEN /\ jobs' = MarkAll(ins.rows, batch)
                                /\ sched' = Idle
                           ELSE /\ jobs' = ins.rows
                                /\ sched' = [p EXCEPT !.pc = "send", !.targets = chans,
                                                      !.unposted = batch, !.ci = 1, !.ji = 1]
                ELSE /\ jobs' = ins.rows
                     /\ sched' = Idle
    /\ UNCHANGED << channels, upd, sendCount, call >>

\* lines 622-640: one send of the fan-out and what follows it up to the next await
\* lines 622-634: one send of the two loops, with one of the outcomes oks
SchedSendWith(oks) ==
    /\ sched.pc = "send"
    /\ \E ok \in oks :
         LET q == AfterSend(sched, ok)
         IN  /\ sendCount' = Invoke(sched.unposted[sched.ji], sched.targets[sched.ci])
             /\ jobs' = SchedMarks(jobs, sched, q, ok)
             /\ sched' = IF q.pc = "over" THEN Idle ELSE q
    /\ UNCHANGED << channels, upd, faults, call >>

SchedSend == SchedSendWith(BOOLEAN)

(***************************************************************************)
(* update_command (handler of /update).                                    *)
(***************************************************************************)
\* lines 511-535: the access check, then the start of the pass
UpdStart ==
    /\ Resting(upd)
    /\ \E chat \in UpdateChats, is_admin \in BOOLEAN, member \in MemberStatuses :
         LET denied == AccessCheck(is_admin, chat, member)
         IN  upd' = IF denied # ""
                    THEN [Idle EXCEPT !.pc = "reply", !.chat = chat, !.reply.text = denied]
                    ELSE StartFetch(chat)
    /\ UNCHANGED << jobs, channels, sched, sendCount, faults, call >>

UpdFetchRss ==
    /\ upd.pc = "rss"
    /\ \E resp \in Responses : upd' = RssStep(upd, resp) /\ Fault(resp # "ok")
    /\ UNCHANGED << jobs, channels, sched, sendCount, call >>

UpdFetchHtml ==
    /\ upd.pc = "html"
    /\ \E resp \in Responses : upd' = HtmlStep(upd, resp) /\ Fault(resp # "ok")
    /\ UNCHANGED << jobs, channels, sched, sendCount, call >>

\* lines 535-545, and 560-565 when nothing is sent
UpdInsert ==
    /\ upd.pc = "insert"
    /\ \E errs \in StoreErrors(upd.all_jobs), tickAt \in Ticks(upd.all_jobs) :
         /\ Fault(errs # {})
         /\ LET ins == InsertAll(jobs, upd.all_jobs, 1, errs, tickAt)
                p   == Inserted(upd, ins)
            IN  /\ jobs' = ins.rows
                /\ IF ChatType(upd.chat) \in { "channel", "group", "supergroup" }
                      /\ DispatchGate(ins.new_count)
                   THEN \E batch \in get_unposted_jobs(ins.rows, BatchSize) :
                          upd' = IF batch = << >>
                                 THEN Reply(p)
                                 ELSE [p EXCEPT !.pc = "send", !.targets = << upd.chat >>,
                                                !.unposted = batch, !.ci = 1, !.ji = 1]
                   ELSE upd' = Reply(p)
    /\ UNCHANGED << channels, sched, sendCount, call >>

\* lines 546-565: one send of the loop and what follows it up to the next await
\* lines 545-558: one send of the loop, with one of the outcomes oks
UpdSendWith(oks) ==
    /\ upd.pc = "send"
    /\ \E ok \in oks :
         LET q == AfterSend(upd, ok)
         IN  /\ sendCount' = Invoke(upd.unposted[upd.ji], upd.targets[upd.ci])
             /\ jobs' = UpdMarks(jobs, upd, q, ok)
             /\ upd' = IF q.pc = "over" THEN Reply(q) ELSE q
    /\ UNCHANGED << channels, sched, faults, call >>

UpdSend == UpdSendWith(BOOLEAN)

\* the reply is out: update_command returns
UpdReturn ==
    /\ upd.pc = "reply"
    /\ upd' = Idle
    /\ UNCHANGED << jobs, channels, sched, sendCount, faults, call >>

(***************************************************************************)
(* chat_member_update (handler of my_chat_member updates).  Handlers run   *)
(* one at a time, so it does not start while update_command is running.    *)
(***************************************************************************)
ChatMemberUpdate ==
    /\ Resting(upd)
    /\ \E chat \in Groups, status \in { "administrator", "left" },
          title \in ChatTitles, by \in Users, storeError \in BOOLEAN :
         /\ Fault(status = "administrator" /\ storeError)
         /\ channels' = IF status = "administrator"
                        THEN add_channel(channels, chat, title, ChatType(chat),
                                         by, storeError).rows
                        ELSE channels
    /\ UNCHANGED << jobs, sched, upd, sendCount, call >>

Next ==
    \/ SchedStart \/ SchedFetchRss \/ SchedFetchHtml \/ SchedInsert \/ SchedSend
    \/ UpdStart \/ UpdFetchRss \/ UpdFetchHtml \/ UpdInsert \/ UpdSend \/ UpdReturn
    \/ ChatMemberUpdate

Spec == Init /\ [][Next]_vars

(***************************************************************************)
(* Progress.  Every await of a cycle ends: the HTTP requests carry         *)
(* timeout=30, the sleeps are finite, send_message returns or raises       *)
(* within the timeouts of the transport, and the event loop resumes a      *)
(* coroutine whose await has ended.  So a step of a cycle that is pending  *)
(* is taken; nothing obliges a new cycle or a new update to start (the job *)
(* queue's timer and the users are the environment).  The specification   *)
(* is the scheduled cycle with the registrations, without /update.         *)
(* SchedInsert is enabled exactly when sched.pc = "insert" (the loop with  *)
(* no store error is always possible and the step leaves that place), so   *)
(* its weak fairness is written out with that condition.                   *)
(***************************************************************************)
CycleNext ==
    \/ SchedStart \/ SchedFetchRss \/ SchedFetchHtml \/ SchedInsert \/ SchedSend
    \/ ChatMemberUpdate

CycleSpec ==
    /\ Init /\ [][CycleNext]_vars
    /\ WF_vars(SchedFetchRss) /\ WF_vars(SchedFetchHtml) /\ WF_vars(SchedSend)
    /\ ([]<>(sched.pc # "insert") \/ []<><<SchedInsert>>_vars)

(***************************************************************************)
(* Cancellation.  The scheduled cycle is a task of the event loop; when    *)
(* the task is cancelled (the application is stopped, the loop is shut     *)
(* down), asyncio raises CancelledError at the await the coroutine is      *)
(* suspended in.  CancelledError is a BaseException: the 'except           *)
(* Exception' branches of fetch_rss, fetch_html and of the send loop do    *)
(* not catch it, and no function of bot.py has a finally block, so the     *)
(* error leaves fetch_all_jobs and auto_fetch_and_broadcast at once.  In   *)
(* fetch_all_jobs that is before close_session: the cycle is over and the  *)
(* session of its scraper is still open.                                   *)
(***************************************************************************)
Cancelled(p) ==
    IF p.pc \in { "rss", "html" } THEN [Idle EXCEPT !.session = p.session] ELSE Idle

SchedCancel ==
    /\ sched.pc \in { "rss", "html", "send" }
    /\ sched' = Cancelled(sched)
    /\ UNCHANGED << jobs, channels, upd, sendCount, faults, call >>

CancelNext == CycleNext \/ SchedCancel

CancelSpec == Init /\ [][CancelNext]_vars

(***************************************************************************)
(* The bot with its destinations out of reach: both chats were registered  *)
(* before, no my_chat_member update arrives any more, and Telegram refuses *)
(* every send_message (the bot was removed from the chats).                *)
(***************************************************************************)
DownInit ==
    /\ jobs = << >>
    /\ channels = { ChannelRow(c, "Govt Jobs", ChatType(c), 7) : c \in Groups }
    /\ sched = Idle
    /\ upd = Idle
    /\ sendCount = << >>
    /\ faults = 0
    /\ call = NoCall

DownSchedSend == SchedSendWith({ FALSE })

DownUpdSend == UpdSendWith({ FALSE })

DownNext ==
    \/ SchedStart \/ SchedFetchRss \/ SchedFetchHtml \/ SchedInsert \/ DownSchedSend
    \/ UpdStart \/ UpdFetchRss \/ UpdFetchHtml \/ UpdInsert \/ DownUpdSend \/ UpdReturn

DownSpec == DownInit /\ [][DownNext]_vars

(***************************************************************************)
(* The posting store on its own: the methods of Database on the jobs       *)
(* table, called one after another in any order.                           *)
(***************************************************************************)
MaxLimit == 2                     \* the limits get_unposted_jobs is called with

\* the postings add_job is called with
StoreJobs == Range(RssJobs[1]["ok"])

StoreAddJob ==
    /\ \E job \in StoreJobs, storeError, newSecond \in BOOLEAN :
         LET r == add_job(jobs, job, storeError, newSecond)
         IN  /\ jobs' = r.rows
             /\ call' = [op |-> "add_job", arg |-> job, result |-> r.ok]
    /\ UNCHANGED << channels, sched, upd, sendCount, faults >>

StoreMarkPosted ==
    /\ \E job_id \in 1..Len(jobs) :
         /\ jobs' = mark_posted(jobs, job_id)
         /\ call' = [op |-> "mark_posted", arg |-> job_id, result |-> << >>]
    /\ UNCHANGED << channels, sched, upd, sendCount, faults >>

StoreGetUnposted ==
    /\ \E limit \in 0..MaxLimit :
         \E batch \in get_unposted_jobs(jobs, limit) :
            call' = [op |-> "get_unposted_jobs", arg |-> limit, result |-> batch]
    /\ UNCHANGED << jobs, channels, sched, upd, sendCount, faults >>

StoreNext == StoreAddJob \/ StoreMarkPosted \/ StoreGetUnposted

StoreSpec == Init /\ [][StoreNext]_vars

(***************************************************************************)
(* add_job on its own, called with postings of any title and organization  *)
(* (the method takes the dict it is given), the store raising no error.    *)
(***************************************************************************)
PairTitles == { "Clerk", "ClerkU", "Officer" }
PairOrgs == { "PSC", "UPSC" }

PairJobs ==
    { [source |-> "employment_news", title |-> t, organization |-> o] :
        t \in PairTitles, o \in PairOrgs }

PairAddJob ==
    /\ \E job \in PairJobs, newSecond \in BOOLEAN :
         LET r == add_job(jobs, job, FALSE, newSecond)
         IN  /\ jobs' = r.rows
             /\ call' = [op |-> "add_job", arg |-> job, result |-> r.ok]
    /\ UNCHANGED << channels, sched, upd, sendCount, faults >>

PairSpec == Init /\ [][PairAddJob]_vars

(***************************************************************************)
(* The destination table on its own: registrations (chat_member_update     *)
(* with status administrator, which calls add_channel) of chats whose      *)
(* title and type change between registrations, and get_active_channels.   *)
(***************************************************************************)
RegTitles == { "Govt Jobs", "Sarkari Naukri" }
RegUsers == { 7, 8 }

ChanRegister ==
    /\ \E chat \in Groups, title \in RegTitles, type \in GroupTypes,
          by \in RegUsers, storeError \in BOOLEAN :
         LET r == add_channel(channels, chat, title, type, by, storeError)
         IN  /\ channels' = r.rows
             /\ call' = [op     |-> "add_channel",
                         arg    |-> ChannelRow(chat, title, type, by),
                         result |-> r.ok]
    /\ UNCHANGED << jobs, sched, upd, sendCount, faults >>

ChanGetActive ==
    /\ call' = [op |-> "get_active_channels", arg |-> << >>,
                result |-> get_active_channels(channels)]
    /\ UNCHANGED << jobs, channels, sched, upd, sendCount, faults >>

ChanNext == ChanRegister \/ ChanGetActive

ChannelSpec == Init /\ [][ChanNext]_vars

(***************************************************************************)
(* _extract_date on its own, called with the texts a summary can be: a     *)
(* lead, a date in one of several shapes (or none), and a tail.            *)
(***************************************************************************)
DateLeads ==
    { "", "Last Date: ", "last date ", "LAST DATE:\n", "Last Date:", "Last Dat: ",
      "Apply by ", "Posted 01/02/2024. Last Date: ", "Vacancy 20" }

DateShapes ==
    { "", "12-08-2025", "1/2/25", "12.08.20255", "12-08", "99-99-9999",
      "12 Aug 2025", "5 september 2025", "12-Aug-2025", "12 - 08 - 2025", "3 Augu5t 2025" }

DateTails == { "", " apply now", "7", " or 3 Jan 2026" }

DateTexts == { l \o d \o t : l \in DateLeads, d \in DateShapes, t \in DateTails }

\* a summary is about to be handed to _extract_date
ExtractInit ==
    /\ jobs = << >>
    /\ channels = {}
    /\ sched = Idle
    /\ upd = Idle
    /\ sendCount = << >>
    /\ faults = 0
    /\ call \in { [op |-> "summary", arg |-> text, result |-> << >>] : text \in DateTexts }

ExtractDate ==
    /\ call.op = "summary"
    /\ call' = [op |-> "extract_date", arg |-> call.arg, result |-> extract_date(call.arg)]
    /\ UNCHANGED << jobs, channels, sched, upd, sendCount, faults >>

ExtractSpec == ExtractInit /\ [][ExtractDate]_vars

(***************************************************************************)
(* _parse_html on its own, called with pages on which three of the         *)
(* selectors ('table tr', '.job-listing', 'article') select items: none,   *)
(* short ones, ones without a keyword, valid ones, and a valid one behind  *)
(* the first three.                                                        *)
(***************************************************************************)
ItemLists ==
    { << >>,
      << "SSC job" >>,
      << "Home", "Contact the regional office today" >>,
      << "Home", "UPSC post", "About us", "Railway Recruitment Board notification 2025" >>,
      << "Contact the regional office today", "Junior Engineer Recruitment 2025",
         "Staff Nurse Vacancy at AIIMS Delhi" >>,
      << "RRB Group D Vacancy", "Bank Clerk Recruitment IBPS 2025" >> }

PageOf(rows, listings, articles) ==
    << rows, listings, << >>, << >>, articles, << >>, << >> >>

Pages == { PageOf(a, b, c) : a \in ItemLists, b \in ItemLists, c \in ItemLists }

\* a page is about to be handed to _parse_html
ParseInit ==
    /\ jobs = << >>
    /\ channels = {}
    /\ sched = Idle
    /\ upd = Idle
    /\ sendCount = << >>
    /\ faults = 0
    /\ call \in { [op |-> "page", arg |-> page, result |-> << >>] : page \in Pages }

ParseHtml ==
    /\ call.op = "page"
    /\ call' = [op |-> "parse_html", arg |-> call.arg,
                result |-> parse_html(call.arg, HtmlNames[1])]
    /\ UNCHANGED << jobs, channels, sched, upd, sendCount, faults >>

ParseSpec == ParseInit /\ [][ParseHtml]_vars

(***************************************************************************)
(* The properties.  A step of a cycle is recognised by the change of its   *)
(* record: every step of a cycle changes the record, no other step does.   *)
(***************************************************************************)
\* between the start of fetch_all_jobs and the end of the fan-out
InCycle(p) == p.pc \in { "rss", "html", "insert", "send" }

\* the send that is awaited is the last one of the two loops
LastSend(p) == p.ci = Len(p.targets) /\ p.ji = Len(p.unposted)

\* the loop variables of the send after the awaited one
NextSend(p) == IF p.ji < Len(p.unposted) THEN << p.ci, p.ji + 1 >> ELSE << p.ci + 1, 1 >>

\* a row but for its posted flag
Fields(row) == [row EXCEPT !.posted = 0]

\* the fingerprints of a list of raw postings
Prints(all_jobs) == { Fingerprint(all_jobs[k]) : k \in 1..Len(all_jobs) }

\* the first posting of a list that has fingerprint h
FirstOf(all_jobs, h) ==
    all_jobs[CHOOSE k \in 1..Len(all_jobs) :
                /\ Fingerprint(all_jobs[k]) = h
                /\ \A m \in 1..(k - 1) : Fingerprint(all_jobs[m]) # h]

----------------------------------------------------------------------------
\* C1: the scheduled cycle and the on-demand cycle are never both between
\* their start and their end.  (The code has no gate: violated.)
C1_NonOverlap == ~ (InCycle(sched) /\ InCycle(upd))

----------------------------------------------------------------------------
RECURSIVE CallsOK(_, _, _, _, _)
\* the add_job calls of one loop, from the k-th on, each on the store the
\* calls before it left: a call returns true exactly when it raises no error
\* and the fingerprint is not stored; it then appends one row, which carries
\* the fingerprint of the posting; else it leaves the store as it is
CallsOK(rows, all_jobs, k, errs, tickAt) ==
    IF k > Len(all_jobs) THEN TRUE
    ELSE LET job    == all_jobs[k]
             stored == Fingerprint(job) \in Hashes(rows)
             r      == add_job(rows, job, k \in errs, k = tickAt)
         IN  /\ r.ok <=> (k \notin errs /\ ~ stored)
             /\ ~ r.ok => r.rows = rows
             /\ r.ok => /\ Len(r.rows) = Len(rows) + 1
                        /\ SubSeq(r.rows, 1, Len(rows)) = rows
                        /\ r.rows[Len(r.rows)].hash = Fingerprint(job)
             /\ CallsOK(r.rows, all_jobs, k + 1, errs, tickAt)

\* C2 (as the code has it): the store holds at most one posting per
\* fingerprint, and in every add_job loop a cycle is about to run, whichever
\* call raises a store error, a call returns true exactly when it raises no
\* error and the fingerprint is not stored; a call that returns false leaves
\* the store unchanged, so every call after the one that stored a posting
\* returns false.
C2_IdempotentIngestion ==
    /\ \A i, j \in 1..Len(jobs) : jobs[i].hash = jobs[j].hash => i = j
    /\ \A p \in { sched, upd } :
          p.pc = "insert" =>
             \A errs \in StoreErrors(p.all_jobs), tickAt \in Ticks(p.all_jobs) :
                CallsOK(jobs, p.all_jobs, 1, errs, tickAt)

\* a pass whose postings were fetched twice: all found, none new, no error
C2_Witness ==
    /\ upd.pc = "reply" /\ upd.reply.text = "done"
    /\ upd.reply.found > 0 /\ upd.reply.new = 0
    /\ faults = 0

\* C2 (as stated): among the add_job calls for one (title, organization) pair
\* the first returns true: for every fingerprint of a pass that was not
\* stored, the add_job loop stores the first posting of the pass that has it.
C2_FirstCallReturnsTrue ==
    [][ /\ (sched.pc = "insert" /\ sched' # sched) =>
              \A h \in Prints(sched.all_jobs) \ Hashes(jobs) :
                 \E i \in 1..Len(jobs') :
                    /\ jobs'[i].hash = h
                    /\ jobs'[i].source = FirstOf(sched.all_jobs, h).source
        /\ (upd.pc = "insert" /\ upd' # upd) =>
              \A h \in Prints(upd.all_jobs) \ Hashes(jobs) :
                 \E i \in 1..Len(jobs') :
                    /\ jobs'[i].hash = h
                    /\ jobs'[i].source = FirstOf(upd.all_jobs, h).source ]_vars

----------------------------------------------------------------------------
\* C3: the scheduled cycle enters its fan-out with an unmarked batch, none
\* of its sends marks a posting while a send remains, and the step that ends
\* the two loops leaves every posting of the batch delivered, whatever the
\* sends returned.
C3_MarkAfterFanOut ==
    [][ /\ (sched.pc = "insert" /\ sched'.pc = "send") =>
              \A i \in Range(sched'.unposted) : jobs'[i].posted = 0
        /\ (sched.pc = "send" /\ sched' # sched) =>
              IF LastSend(sched)
              THEN \A i \in Range(sched.unposted) : jobs'[i].posted = 1
              ELSE /\ sched'.pc = "send"
                   /\ \A i \in 1..Len(jobs) : jobs'[i].posted = jobs[i].posted ]_vars

\* the last send of a scheduled fan-out of two postings to two chats is
\* awaited, and nothing of the batch is marked
C3_Witness ==
    /\ sched.pc = "send" /\ LastSend(sched)
    /\ Len(sched.targets) = 2 /\ Len(sched.unposted) >= 2
    /\ sched.sends = Len(sched.targets) * Len(sched.unposted) - 1
    /\ \A i \in Range(sched.unposted) : jobs[i].posted = 0
    /\ upd.pc = "idle"

----------------------------------------------------------------------------
\* C4: on both paths a send that returned or raised is followed by the send
\* of the next posting to the same chat, else of the first posting to the
\* next chat; the loops end only at the last posting of the last chat.
C4_FailureIsolation ==
    [][ /\ (sched.pc = "send" /\ sched' # sched) =>
              IF LastSend(sched)
              THEN sched'.pc = "idle"
              ELSE /\ sched'.pc = "send"
                   /\ << sched'.ci, sched'.ji >> = NextSend(sched)
                   /\ sched'.targets = sched.targets
                   /\ sched'.unposted = sched.unposted
        /\ (upd.pc = "send" /\ upd' # upd) =>
              IF LastSend(upd)
              THEN upd'.pc = "reply"
              ELSE /\ upd'.pc = "send"
                   /\ << upd'.ci, upd'.ji >> = NextSend(upd)
                   /\ upd'.targets = upd.targets
                   /\ upd'.unposted = upd.unposted ]_vars

\* update_command marks a posting when its send returned: a posting it has
\* sent and not marked is a failed send, and the loop went on behind it
C4_Witness ==
    /\ upd.pc = "send" /\ upd.ji >= 2
    /\ sched.pc = "idle"
    /\ jobs[upd.unposted[1]].posted = 0
    /\ Count(upd.unposted[1], upd.chat) >= 1

----------------------------------------------------------------------------
\* C5: send_message is invoked at most once for a posting and a chat.
\* (update_command leaves a posting whose send failed unmarked, and the two
\* cycles read the same unmarked rows: violated.)
C5_SentAtMostOnce ==
    \A i \in 1..Len(jobs), c \in Groups : Count(i, c) <= 1

----------------------------------------------------------------------------
\* how often send_message was invoked for the pair after a step
CountAfter(job_id, chat) ==
    IF << job_id, chat >> \in DOMAIN sendCount' THEN sendCount'[<< job_id, chat >>] ELSE 0

\* the chats that were active when the cycle that takes the step read its
\* batch: the handlers run one at a time, so the table is the same while
\* update_command runs; the scheduled cycle keeps the list it read
ActiveAtDispatch ==
    IF upd' # upd THEN Range(get_active_channels(channels)) ELSE Range(sched.targets)

\* C6: a step that marks a posting delivered finds send_message invoked for
\* the posting and every chat that was active when the batch was read.
\* (update_command sends to the chat of the command only: violated.)
C6_FanOutComplete ==
    [][ \A i \in 1..Len(jobs) :
          (jobs[i].posted = 0 /\ jobs'[i].posted = 1) =>
             \A c \in ActiveAtDispatch : CountAfter(i, c) >= 1 ]_vars

----------------------------------------------------------------------------
\* C7: no step that changes the jobs table removes a row or changes a field
\* of a row other than posted, posted never goes back from 1 to 0, and
\* mark_posted of a row that is marked leaves the table as it is.
C7_PostingLifecycle ==
    [][ jobs' # jobs =>
           /\ Len(jobs') >= Len(jobs)
           /\ \A i \in 1..Len(jobs) :
                 /\ Fields(jobs'[i]) = Fields(jobs[i])
                 /\ jobs'[i].posted >= jobs[i].posted
           /\ \A i \in 1..Len(jobs') :
                 jobs'[i].posted = 1 => mark_posted(jobs', jobs'[i].id) = jobs' ]_vars

\* a pass submits postings that are all stored, one of them delivered
C7_Witness ==
    /\ sched.pc = "insert"
    /\ Len(sched.all_jobs) > 0
    /\ Prints(sched.all_jobs) \subseteq Hashes(jobs)
    /\ \E i \in 1..Len(jobs) :
          jobs[i].posted = 1 /\ jobs[i].hash \in Prints(sched.all_jobs)

----------------------------------------------------------------------------
\* C8: send_message was invoked at least once for every posting that is
\* marked delivered.  (With no active chat the scheduled cycle marks its
\* batch without a send: violated.)
C8_DeliveredWasSent ==
    \A i \in 1..Len(jobs) :
       jobs[i].posted = 1 => \E c \in Groups : Count(i, c) >= 1

----------------------------------------------------------------------------
\* C9: a scheduled cycle dispatches the postings it finds undelivered: when
\* its add_job loop ends and the undelivered postings fit one batch, each
\* posting that was undelivered before is in the batch it sends (or is
\* marked by the step).  (The cycle reads a batch only if it inserted a new
\* posting: violated.)
C9_NextCycleDispatches ==
    [][ (/\ sched.pc = "insert" /\ sched' # sched
         /\ upd.pc = "idle"
         /\ Cardinality(Unposted(jobs)) + Len(jobs') - Len(jobs) <= BatchSize) =>
           \A i \in Unposted(jobs) :
              \/ sched'.pc = "send" /\ i \in Range(sched'.unposted)
              \/ jobs'[i].posted = 1 ]_vars

----------------------------------------------------------------------------
\* C10: the scheduled fan-out starts with the active chats and a batch of at
\* most 3 postings, each of its sends is at most the (N*M)-th, the loops end
\* with the (N*M)-th, and the step that ends them leaves the N postings
\* delivered.
C10_BoundedFanOut ==
    [][ /\ (sched.pc = "insert" /\ sched'.pc = "send") =>
              /\ Len(sched'.unposted) <= BatchSize
              /\ sched'.targets = get_active_channels(channels)
              /\ sched'.sends = 0
        /\ (sched.pc = "send" /\ sched' # sched) =>
              /\ sched.sends + 1 <= Len(sched.unposted) * Len(sched.targets)
              /\ sched'.pc = "send" => sched'.sends = sched.sends + 1
              /\ sched'.pc # "send" =>
                    /\ sched.sends + 1 = Len(sched.unposted) * Len(sched.targets)
                    /\ \A i \in Range(sched.unposted) : jobs'[i].posted = 1 ]_vars

\* a scheduled fan-out of a full batch to two chats has ended: every posting
\* of the store was sent to both chats and is delivered
C10_Witness ==
    /\ sched.pc = "idle" /\ upd.pc = "idle"
    /\ Len(jobs) = BatchSize
    /\ Cardinality(DOMAIN sendCount) = BatchSize * 2
    /\ \A i \in 1..Len(jobs) :
          jobs[i].posted = 1 /\ \A c \in Groups : Count(i, c) = 1

----------------------------------------------------------------------------
\* C11: on both paths the step that ends a fan-out leaves every posting of
\* the batch marked delivered, whatever its sends returned.  (update_command
\* marks a posting only after a send that returned: violated.)
C11_FailedSendStillMarked ==
    [][ /\ (upd.pc = "send" /\ upd'.pc = "reply") =>
              \A i \in Range(upd.unposted) : jobs'[i].posted = 1
        /\ (sched.pc = "send" /\ sched'.pc = "idle") =>
              \A i \in Range(sched.unposted) : jobs'[i].posted = 1 ]_vars

----------------------------------------------------------------------------
\* C12: the reply of update_command gives the number of postings fetched,
\* the number of rows its add_job loop added and the number of postings it
\* sent.  (Posted is min(new_count, 3), whatever was sent: violated.)
C12_FaithfulReport ==
    [][ /\ (upd.pc = "insert" /\ upd' # upd) =>
              IF upd'.pc = "reply"
              THEN /\ upd'.reply.found = Len(upd.all_jobs)
                   /\ upd'.reply.new = Len(jobs') - Len(jobs)
                   /\ upd'.reply.posted = 0
              ELSE /\ upd'.found = Len(upd.all_jobs)
                   /\ upd'.new_count = Len(jobs') - Len(jobs)
        /\ (upd.pc = "send" /\ upd'.pc = "reply") =>
              /\ upd'.reply.found = upd.found
              /\ upd'.reply.new = upd.new_count
              /\ upd'.reply.posted = upd.sends + 1 ]_vars

----------------------------------------------------------------------------
\* the positions of a list whose posting has fingerprint h
Group(all_jobs, h) == { k \in 1..Len(all_jobs) : Fingerprint(all_jobs[k]) = h }

\* C13 (as the code has it): in every add_job loop a cycle is about to run,
\* whichever calls raise a store error, new_count is the number of rows the
\* loop adds; the rows added have different fingerprints, none of them
\* stored before, and a fingerprint of the pass that was not stored gets its
\* row exactly when one of the calls for it raises no error.
C13_TallyIsRowsAdded ==
    \A p \in { sched, upd } :
       p.pc = "insert" =>
          \A errs \in StoreErrors(p.all_jobs), tickAt \in Ticks(p.all_jobs) :
             LET ins   == InsertAll(jobs, p.all_jobs, 1, errs, tickAt)
                 added == Hashes(ins.rows) \ Hashes(jobs)
             IN  /\ ins.new_count = Len(ins.rows) - Len(jobs)
                 /\ ins.new_count = Cardinality(added)
                 /\ SubSeq(ins.rows, 1, Len(jobs)) = jobs
                 /\ \A h \in Prints(p.all_jobs) \ Hashes(jobs) :
                       h \in added <=> Group(p.all_jobs, h) \ errs # {}
                 /\ added \subseteq Prints(p.all_jobs)

\* a pass has ended that fetched 5 postings, two of them the same and some
\* stored before: one was new
C13_Witness ==
    /\ upd.pc = "reply" /\ upd.reply.text = "done"
    /\ upd.reply.found = 5 /\ upd.reply.new = 1
    /\ Len(jobs) = 4

\* C13 (as stated): of the postings of a pass with one fingerprint that is
\* not stored exactly one is counted: the tally of the loop is the number of
\* fingerprints of the pass that were not stored.
C13_OnePerFingerprintCounted ==
    [][ /\ (upd.pc = "insert" /\ upd' # upd) =>
              (IF upd'.pc = "reply" THEN upd'.reply.new ELSE upd'.new_count)
                 = Cardinality(Prints(upd.all_jobs) \ Hashes(jobs))
        /\ (sched.pc = "insert" /\ sched'.pc = "send") =>
              sched'.new_count = Cardinality(Prints(sched.all_jobs) \ Hashes(jobs)) ]_vars

----------------------------------------------------------------------------
\* a step of fetch_all_jobs from p to q keeps the rule of the fallback: the
\* first HTML page is requested exactly by the step that takes the answer of
\* the last RSS source with fewer than 5 postings collected
FallbackRule(p, q) ==
    /\ (p.pc = "rss" /\ q # p) =>
          /\ q.pc = "html" <=> (p.idx = NumRss /\ Len(q.all_jobs) < RssThreshold)
          /\ q.pc = "insert" <=> (p.idx = NumRss /\ Len(q.all_jobs) >= RssThreshold)
          /\ q.pc = "rss" <=> p.idx < NumRss
          /\ q.pc = "html" => q.idx = 1
    /\ (q.pc = "html" /\ p.pc # "html") => (p.pc = "rss" /\ p.idx = NumRss)

\* C14: in both cycles the HTML pages are fetched if and only if all RSS
\* sources have been polled and yielded fewer than 5 postings together; no
\* HTML page is fetched before the last RSS source has answered.
C14_FallbackActivation ==
    [][ FallbackRule(sched, sched') /\ FallbackRule(upd, upd') ]_vars

\* the RSS sources yielded fewer than 5 postings and the first HTML page is
\* being fetched
C14_Witness ==
    /\ sched.pc = "html" /\ sched.idx = 1
    /\ sched.all_jobs # << >>
    /\ Len(sched.all_jobs) < RssThreshold

----------------------------------------------------------------------------
\* a step of fetch_all_jobs from p to q, whatever the source answered: the
\* postings collected so far are kept, the source adds all its postings or
\* none, and the next source is polled, or the pass returns after the last
PollRule(p, q) ==
    /\ (p.pc = "rss" /\ q # p) =>
          /\ q.all_jobs \in { p.all_jobs, p.all_jobs \o RssJobs[p.idx]["ok"] }
          /\ IF p.idx < NumRss
             THEN q.pc = "rss" /\ q.idx = p.idx + 1
             ELSE q.pc \in { "html", "insert" }
    /\ (p.pc = "html" /\ q # p) =>
          /\ q.all_jobs \in { p.all_jobs, p.all_jobs \o HtmlJobs[p.idx]["ok"] }
          /\ IF p.idx < NumHtml
             THEN q.pc = "html" /\ q.idx = p.idx + 1
             ELSE q.pc = "insert"

\* C15: a source that fails adds nothing to the postings of the pass and the
\* pass goes on with the next source; what the other sources yielded stays
\* in the list the pass returns.
C15_SourceFailureIsolated ==
    [][ PollRule(sched, sched') /\ PollRule(upd, upd') ]_vars

\* a pass is about to return fewer postings than the RSS sources serve: a
\* source failed, the others' postings are there
C15_Witness ==
    /\ sched.pc = "insert"
    /\ faults >= 1
    /\ sched.all_jobs # << >>
    /\ Len(sched.all_jobs) < RssThreshold

----------------------------------------------------------------------------
\* C16: in every add_job loop a cycle is about to run, when calls raise a
\* store error, every posting whose call does not raise is stored after the
\* loop (the ones behind the failing call too), nothing is stored for a
\* posting whose calls all raise, and the tally counts the postings whose
\* call did not raise and whose fingerprint was not stored.
C16_StoreErrorIsolated ==
    \A p \in { sched, upd } :
       p.pc = "insert" =>
          \A errs \in StoreErrors(p.all_jobs) \ { {} }, tickAt \in Ticks(p.all_jobs) :
             LET ins  == InsertAll(jobs, p.all_jobs, 1, errs, tickAt)
                 good == { Fingerprint(p.all_jobs[k]) : k \in (1..Len(p.all_jobs)) \ errs }
             IN  /\ Hashes(ins.rows) = Hashes(jobs) \cup good
                 /\ ins.new_count = Cardinality(good \ Hashes(jobs))
                 /\ \A k \in errs :
                       add_job(jobs, p.all_jobs[k], TRUE, k = tickAt)
                          = [rows |-> jobs, ok |-> FALSE]

\* the first posting of the first feed is not the first row: its add_job
\* raised, and the postings behind it were stored
C16_Witness ==
    /\ faults >= 1
    /\ Len(jobs) >= 3
    /\ jobs[1].title = "Junior Engineer Recruitment 2025"
    /\ jobs[1].source = "employment_news"

\* C17: get_unposted_jobs(limit) returns only postings with posted = 0, at
\* most limit of them, newest-first by creation, and when more than limit
\* unposted postings exist the limit most recently created ones.  ids are
\* AUTOINCREMENT, so of two postings the one created later has the larger id.
C17_NewestFirst ==
    call.op = "get_unposted_jobs" =>
        LET batch == call.result
            n     == Len(batch)
        IN  /\ \A i \in 1..n : jobs[batch[i]].posted = 0
            /\ n <= call.arg
            /\ \A i, j \in 1..n : i < j => batch[i] > batch[j]
            /\ \A x \in Unposted(jobs) \ Range(batch) :
                  \A i \in 1..n : batch[i] > x

\* the rows of a destination in the table
RowsOf(chans, chat_id) == { r \in chans : r.chat_id = chat_id }

\* C18: destination uniqueness under upsert.  After every add_channel call
\* the table holds one row per chat id; the row of the chat just registered
\* carries the title and the type of that call, and the rows of the other
\* chats are the ones they had (so each carries its own latest registration).
\* A call that fails inside sqlite returns False and leaves the table alone.
C18_UpsertUniqueness ==
    [][ call'.op = "add_channel" =>
          LET a == call'.arg
          IN  IF call'.result
              THEN /\ \A c \in Groups : Cardinality(RowsOf(channels', c)) <= 1
                   /\ \A c \in Groups \ { a.chat_id } :
                         RowsOf(channels', c) = RowsOf(channels, c)
                   /\ \E r \in channels' :
                         /\ r.chat_id = a.chat_id
                         /\ r.chat_title = a.chat_title
                         /\ r.chat_type = a.chat_type
                   /\ { r.chat_id : r \in channels' } =
                         { r.chat_id : r \in channels } \cup { a.chat_id }
              ELSE channels' = channels ]_vars

\* a chat is registered again under another title and another type while the
\* other chat's row is in the table
C18_Witness ==
    /\ call.op = "add_channel" /\ call.result
    /\ call.arg.chat_title = "Sarkari Naukri" /\ call.arg.chat_type = "supergroup"
    /\ call.arg.added_by = 8
    /\ \E r \in channels : r.chat_id # call.arg.chat_id /\ r.chat_title = "Govt Jobs"
    /\ Cardinality(channels) = 2

\* the postings send_message was invoked with for the chat
SentTo(chat) == { i \in 1..Len(jobs) : Count(i, chat) >= 1 }

\* C19: a destination to which every send of successive cycles failed is
\* deactivated and no longer returned by get_active_channels until it is
\* registered again.  With every send refused and no registration, a chat
\* that was sent more postings than one batch holds has seen the sends of
\* two cycles or more fail; once the cycles are over it is not active.
C19_DeactivatedAfterFailures ==
    \A c \in Groups :
        (Resting(sched) /\ Resting(upd) /\ Cardinality(SentTo(c)) > BatchSize)
            => c \notin Range(get_active_channels(channels))

\* the first pattern of the list that matches text somewhere (0: none does)
FirstPattern(text) ==
    IF \A k \in 1..NumPatterns : Search(k, text) = NoMatch THEN 0
    ELSE CHOOSE k \in 1..NumPatterns :
            /\ Search(k, text) # NoMatch
            /\ \A m \in 1..(k - 1) : Search(m, text) = NoMatch

\* C20: _extract_date returns for every text, the empty one and the malformed
\* dates included, either the sentinel 'Check notification' (exactly when the
\* text is empty or no pattern matches) or a piece of the text, the one the
\* first matching pattern of the list matched: its date group for the two
\* numeric patterns, the whole match for the month-name pattern.  A text
\* with 'Last Date: 12-08-2025' yields '12-08-2025'.
C20_ExtractDateSafe ==
    call.op = "extract_date" =>
        LET text == call.arg
            got  == call.result
            k    == FirstPattern(text)
        IN  /\ got = DateSentinel \/ IsIn(got, text)
            /\ (got = DateSentinel) = (text = "" \/ k = 0)
            /\ k = 1 => /\ got = SubSeq(text, Search(1, text).g1start,
                                         Search(1, text).stop - 1)
                        /\ DateAt(got, 1, 2) = Len(got) + 1
            /\ k = 2 => /\ got = SubSeq(text, Search(2, text).g1start,
                                         Search(2, text).stop - 1)
                        /\ DateAt(got, 1, 4) = Len(got) + 1
            /\ k = 3 => /\ got = SubSeq(text, Search(3, text).start,
                                         Search(3, text).stop - 1)
                        /\ MonthDateAt(got, 1).stop = Len(got) + 1
            /\ IsIn("Last Date: 12-08-2025", text) => got = "12-08-2025"

\* the summary of the example is handed in and its date comes back
C20_Witness ==
    /\ call.op = "extract_date"
    /\ call.arg = "Last Date: 12-08-2025 apply now"
    /\ call.result = "12-08-2025"

----------------------------------------------------------------------------
\* C21: dispatch is gated on new insertions.  The step of a cycle that runs
\* its add_job loop without adding a row ends the cycle there (the scheduled
\* cycle is over, update_command goes to its last reply): it invokes no
\* send_message and leaves the jobs table as it is, whatever postings are
\* unposted; and a cycle that is about to send has new_count > 0.
C21_GatedOnInsertions ==
    [][ /\ (sched.pc = "insert" /\ sched' # sched /\ Len(jobs') = Len(jobs)) =>
              (sched' = Idle /\ jobs' = jobs /\ sendCount' = sendCount)
        /\ (upd.pc = "insert" /\ upd' # upd /\ Len(jobs') = Len(jobs)) =>
              (upd'.pc = "reply" /\ jobs' = jobs /\ sendCount' = sendCount)
        /\ sched'.pc = "send" => sched'.new_count > 0
        /\ upd'.pc = "send" => upd'.new_count > 0 ]_vars

\* update_command in a channel found postings, inserted none and is at its
\* last reply while unposted postings are in the store
C21_Witness ==
    /\ upd.pc = "reply" /\ upd.reply.text = "done"
    /\ upd.reply.found > 0 /\ upd.reply.new = 0
    /\ ChatType(upd.chat) = "channel"
    /\ Unposted(jobs) # {}

----------------------------------------------------------------------------
\* the entries of a sequence are pairwise different
Distinct(seq) == \A i, j \in 1..Len(seq) : i # j => seq[i] # seq[j]

\* a step of the cycle p -> q polls the next source of the list, or leaves
\* the list after its last source
PollsInOrder(p, q, pc, num) ==
    (p.pc = pc /\ q # p) =>
        \/ q.pc = pc /\ q.idx = p.idx + 1
        \/ q.pc # pc /\ p.idx = num

\* a step of the cycle p -> q that returns from a send goes on with a later
\* pair of the same batch and the same chats, or ends the loops after the
\* last pair
SendsInOrder(p, q) ==
    (p.pc = "send" /\ q # p) =>
        /\ Distinct(p.targets) /\ Distinct(p.unposted)
        /\ \/ /\ q.pc = "send"
              /\ q.targets = p.targets /\ q.unposted = p.unposted
              /\ q.ci > p.ci \/ (q.ci = p.ci /\ q.ji > p.ji)
           \/ /\ q.pc # "send"
              /\ p.ci = Len(p.targets) /\ p.ji = Len(p.unposted)

\* C22: every started cycle terminates.  A cycle that is fetching or
\* dispatching is idle again later, whatever answers the sources and the
\* sends give; on its way it polls the sources of each list one after the
\* other, each once, and goes through the (chat, posting) pairs of its batch
\* in order, each once.
C22_CycleTerminates ==
    /\ InCycle(sched) ~> Resting(sched)
    /\ [][ /\ PollsInOrder(sched, sched', "rss", NumRss)
           /\ PollsInOrder(sched, sched', "html", NumHtml)
           /\ SendsInOrder(sched, sched') ]_vars

\* the scheduled cycle is dispatching, a source or the store has failed on
\* the way and a send is behind it
C22_Witness ==
    /\ sched.pc = "send" /\ sched.sends >= 1
    /\ faults >= 1

----------------------------------------------------------------------------
\* the items of selector s that _parse_html looks at
Looked(page, s) == Take(page[s], ItemCap)

\* the text passes the test of line 279
ValidBlock(text) == Len(text) > MinTextLen /\ HasKeyword(text)

\* the posting came from an item looked at under one of the selectors sels
BuiltFrom(found, page, sels) ==
    \E t \in sels : \E i \in 1..Len(Looked(page, t)) :
        found = << HtmlJob(Looked(page, t)[i], HtmlNames[1]) >>

\* C23 (as stated): _parse_html returns at most one posting per page, and
\* when a selector has a keyword-matching block among its first three items
\* the posting returned comes from that selector or one before it.
C23_KeywordBlockWins ==
    call.op = "parse_html" =>
        /\ Len(call.result) <= 1
        /\ \A s \in 1..Len(Selectors) :
              (\E i \in 1..Len(Looked(call.arg, s)) : HasKeyword(Looked(call.arg, s)[i]))
                 => BuiltFrom(call.result, call.arg, 1..s)

\* C23: _parse_html is first-match-wins.  It returns at most one posting per
\* page: none when no selector has, among its first three items, a block of
\* more than 20 characters that contains a keyword; else the posting built
\* from the first such block of the first selector, in the order of the
\* list, that has one.
C23_FirstMatchWins ==
    call.op = "parse_html" =>
        LET page == call.arg
            Hits(s) == { i \in 1..Len(Looked(page, s)) : ValidBlock(Looked(page, s)[i]) }
            yields  == { s \in 1..Len(Selectors) : Hits(s) # {} }
        IN  /\ Len(call.result) <= 1
            /\ yields = {} => call.result = << >>
            /\ \A s \in yields : \A i \in Hits(s) :
                  ((\A t \in yields : s <= t) /\ (\A j \in Hits(s) : i <= j))
                     => call.result = << HtmlJob(Looked(page, s)[i], HtmlNames[1]) >>

\* 'table tr' has a valid block only behind its first three rows, the second
\* selector has two valid blocks, 'article' has one: the posting is the
\* second selector's first valid block
C23_Witness ==
    /\ call.op = "parse_html"
    /\ Len(call.arg[1]) = 4 /\ Len(call.arg[2]) = 3 /\ Len(call.arg[5]) = 2
    /\ call.result # << >>
    /\ call.result[1].title = "Junior Engineer Recruitment 2025"

----------------------------------------------------------------------------
\* C24: the session of a pass is released on every exit path, a failing
\* source and a cancelled cycle included: no cycle that is over has its
\* session open.  (close_session is a plain statement after the loops,
\* without try/finally: a pass that is cancelled leaves it out.)
C24_SessionReleased == Resting(sched) => sched.session # "open"

----------------------------------------------------------------------------
====
